---- MODULE Spec2Model ----
(***************************************************************************)
(* Undo/redo snapshot history of PPTist (src/store/snapshot.ts).           *)
(*                                                                         *)
(* The pinia store `snapshot` keeps snapshotCursor / snapshotLength in     *)
(* memory and a Dexie table db.snapshots (auto-increment key `id`, fields  *)
(* `index` and `slides`) as the persistent log.  Positions in the source   *)
(* are 0-based; TLA+ sequences are 1-based, so the record the source calls *)
(* snapshots[k] is log[k + 1] here.                                        *)
(***************************************************************************)
EXTENDS Integers, Sequences, FiniteSets, TLC

\* ---------------------------------------------------------------- bounds
\* number of records the table may ever be given (caps the auto-increment id)
MaxId == 21
\* number of document changes the host makes in one run
MaxEdits == 1
\* number of effective undo steps in one run
MaxUndo == 2
\* largest number of slides in a deck
MaxSlides == 2
\* number of log operations that fail in one run
MaxFailures == 1
\* number of records appended in a run in which log operations may fail
MaxFailId == 4
\* number of times the host moves to another slide without editing
MaxMoves == 1
\* number of records appended in a run with overlapping record calls
MaxConcId == 4
\* largest number of records in a log the history did not build itself
MaxKeys == 23
\* number of keys a listing may return beyond those of the log
MaxExtraKeys == 3

\* ------------------------------------------------------- program constants
snapshotLengthLimit == 20

\* ------------------------------------------------------------ value spaces
\* the decks the host can produce: slides 1..n, at most MaxSlides of them
Decks == { [i \in 1..n |-> i] : n \in 1..MaxSlides }

VARIABLES
    log,                  \* db.snapshots in id order: records [id, index, slides]
    nextId,               \* next auto-increment key of db.snapshots
    snapshotCursor,       \* state.snapshotCursor
    snapshotLength,       \* state.snapshotLength
    slides,               \* slidesStore.slides
    slideIndex,           \* slidesStore.slideIndex
    activeElementIdList,  \* mainStore.activeElementIdList
    last,                 \* the most recent call: its name, the state it started from, what it did
    trip,                 \* progress of a record / undo / redo round trip
    edits,                \* document changes made so far
    undos,                \* effective undo steps made so far
    failures,             \* log operations that have failed so far
    moves,                \* moves to another slide made so far
    calls                 \* the addSnapshot calls in flight, one slot per caller

vars == <<log, nextId, snapshotCursor, snapshotLength, slides, slideIndex,
          activeElementIdList, last, trip, edits, undos, failures, moves, calls>>

\* ------------------------------------------------------------------ getters
canUndo == snapshotCursor > 0

canRedo == snapshotCursor < snapshotLength - 1

\* --------------------------------------------------------- the log (Dexie)
\* db.snapshots.orderBy('id').keys()
allKeysOf(l) == [i \in 1..Len(l) |-> l[i].id]

\* db.snapshots.add({index, slides}): the table assigns the next id
add(l, id, index, sl) == Append(l, [id |-> id, index |-> index, slides |-> sl])

\* db.snapshots.update(key, {index}): a missing key changes nothing
update(l, key, index) ==
    [i \in 1..Len(l) |-> IF l[i].id = key THEN [l[i] EXCEPT !.index = index] ELSE l[i]]

SeqRange(s) == { s[i] : i \in 1..Len(s) }

\* db.snapshots.bulkDelete(keys)
bulkDelete(l, keys) ==
    LET gone(r) == r.id \in SeqRange(keys)
        keep(r) == ~gone(r)
    IN  SelectSeq(l, keep)

\* ------------------------------------------------------------- addSnapshot
\* slices one position too late
truncatedKeys_sliceLate(cursor, allKeys) ==
    IF cursor >= 0 /\ cursor < Len(allKeys) - 1
    THEN SubSeq(allKeys, cursor + 3, Len(allKeys))
    ELSE <<>>

\* slices from the cursor itself
truncatedKeys_fromCursor(cursor, allKeys) ==
    IF cursor >= 0 /\ cursor < Len(allKeys) - 1
    THEN SubSeq(allKeys, cursor + 1, Len(allKeys))
    ELSE <<>>

\* truncates for a negative cursor too
truncatedKeys_noLowerBound(cursor, allKeys) ==
    IF cursor < Len(allKeys) - 1
    THEN SubSeq(allKeys, cursor + 2, Len(allKeys))
    ELSE <<>>

\* keys after the cursor, when the cursor is not at the last key
truncatedKeys(cursor, allKeys) ==
    IF cursor >= 0 /\ cursor < Len(allKeys) - 1
    THEN SubSeq(allKeys, cursor + 2, Len(allKeys))
    ELSE <<>>

\* leaves the new record out of the count
provisionalLength_forgetsNew(cursor, allKeys) ==
    Len(allKeys) - Len(truncatedKeys(cursor, allKeys))

\* forgets the keys marked for deletion
provisionalLength_ignoresBranch(cursor, allKeys) == Len(allKeys) + 1

\* allKeys.length - needDeleteKeys.length + 1
provisionalLength(cursor, allKeys) ==
    Len(allKeys) - Len(truncatedKeys(cursor, allKeys)) + 1

\* lets one record too many through
overLimit_offByOne(cursor, allKeys) ==
    provisionalLength(cursor, allKeys) > snapshotLengthLimit + 1

\* snapshotLength > snapshotLengthLimit
overLimit(cursor, allKeys) == provisionalLength(cursor, allKeys) > snapshotLengthLimit

\* marks the oldest key whether or not the limit is exceeded
needDeleteKeys_alwaysEvicts(cursor, allKeys) ==
    IF allKeys # <<>>
    THEN Append(truncatedKeys(cursor, allKeys), allKeys[1])
    ELSE truncatedKeys(cursor, allKeys)

\* evicts the newest key instead of the oldest
needDeleteKeys_evictsNewest(cursor, allKeys) ==
    IF overLimit(cursor, allKeys)
    THEN Append(truncatedKeys(cursor, allKeys), allKeys[Len(allKeys)])
    ELSE truncatedKeys(cursor, allKeys)

\* the keys handed to bulkDelete: the truncated ones, and allKeys[0] when over the limit
needDeleteKeys(cursor, allKeys) ==
    IF overLimit(cursor, allKeys)
    THEN Append(truncatedKeys(cursor, allKeys), allKeys[1])
    ELSE truncatedKeys(cursor, allKeys)

\* brings the length down to the limit however far above it is
newSnapshotLength_capped(cursor, allKeys) ==
    IF overLimit(cursor, allKeys)
    THEN snapshotLengthLimit
    ELSE provisionalLength(cursor, allKeys)

\* the length after the decrement that goes with the eviction
newSnapshotLength(cursor, allKeys) ==
    IF overLimit(cursor, allKeys)
    THEN provisionalLength(cursor, allKeys) - 1
    ELSE provisionalLength(cursor, allKeys)

\* leaves the cursor on the record before the new one
newSnapshotCursor_behind(length) == length - 2

\* this.setSnapshotCursor(snapshotLength - 1)
newSnapshotCursor(length) == length - 1

\* the key whose index is patched: allKeys[snapshotLength - 2] in the source
patchKey(cursor, allKeys) == allKeys[newSnapshotLength(cursor, allKeys) - 1]

\* -------------------------------------------------------------- unDo / reDo
\* restores the stored index as it is
restoredIndex_noClamp(snapshot) == snapshot.index

\* index > slides.length - 1 ? slides.length - 1 : index
restoredIndex(snapshot) ==
    IF snapshot.index > Len(snapshot.slides) - 1
    THEN Len(snapshot.slides) - 1
    ELSE snapshot.index

\* ------------------------------------------------------------------ history
\* the record of a call: the state it started from, the log operations it
\* issued, the one that failed ("none" when all succeeded), and whether the
\* promise the caller holds was rejected
Call(op, io, failed, error) ==
    [op |-> op, log |-> log, cursor |-> snapshotCursor, length |-> snapshotLength,
     slides |-> slides, slideIndex |-> slideIndex, active |-> activeElementIdList,
     io |-> io, failed |-> failed, error |-> error]

\* no round trip in progress
NoTrip == [stage |-> "none", log |-> <<>>, cursor |-> -1, length |-> 0, slides |-> <<>>]

\* the two callers whose addSnapshot calls may overlap
Callers == {1, 2}

\* a caller with no call in flight
IdleCall ==
    [pc |-> "idle", seen |-> 0, cursor |-> -1, allKeys |-> <<>>,
     index |-> 0, slides |-> <<>>, id |-> 0]

Init ==
    /\ log = <<>>
    /\ nextId = 1
    /\ snapshotCursor = -1
    /\ snapshotLength = 0
    /\ slides = <<1>>
    /\ slideIndex = 0
    /\ activeElementIdList = <<>>
    /\ last = [op |-> "none", log |-> <<>>, cursor |-> -1, length |-> 0,
               slides |-> <<1>>, slideIndex |-> 0, active |-> <<>>,
               io |-> <<>>, failed |-> "none", error |-> FALSE]
    /\ trip = NoTrip
    /\ edits = 0
    /\ undos = 0
    /\ failures = 0
    /\ moves = 0
    /\ calls = [p \in Callers |-> IdleCall]

\* ------------------------------------------------------------------ actions
\* initSnapshotDatabase(); the host calls it once, on an empty history.
\* fail names the log operation that is rejected, "none" when all succeed.
initSnapshotDatabase(fail) ==
    /\ snapshotCursor = -1 /\ log = <<>>
    /\ IF fail = "add"
       THEN /\ last' = Call("initSnapshotDatabase", <<"add">>, "add", TRUE)
            /\ UNCHANGED <<log, nextId, snapshotCursor, snapshotLength>>
       ELSE /\ log' = add(log, nextId, slideIndex, slides)
            /\ nextId' = nextId + 1
            /\ snapshotCursor' = 0
            /\ snapshotLength' = 1
            /\ last' = Call("initSnapshotDatabase", <<"add">>, "none", FALSE)
    /\ trip' = NoTrip
    /\ UNCHANGED <<slides, slideIndex, activeElementIdList, edits, undos, moves, calls>>

\* addSnapshot().  The log operations take effect in the order they are
\* issued: keys, add, update, bulkDelete (the table runs overlapping write
\* transactions in creation order).  keys, add and bulkDelete are awaited, so
\* a rejection leaves the function at that line; update is not awaited.
addSnapshot(fail) ==
    LET allKeys == allKeysOf(log)
        length  == newSnapshotLength(snapshotCursor, allKeys)
        added   == add(log, nextId, slideIndex, slides)
        patched == IF length >= 2 /\ fail # "update"
                   THEN update(added, patchKey(snapshotCursor, allKeys), slideIndex)
                   ELSE added
        ioPatch == IF length >= 2 THEN <<"update">> ELSE <<>>
    IN
    /\ fail = "update" => length >= 2
    /\ CASE fail = "keys" ->
              /\ last' = Call("addSnapshot", <<"keys">>, fail, TRUE)
              /\ UNCHANGED <<log, nextId, snapshotCursor, snapshotLength>>
         [] fail = "add" ->
              /\ last' = Call("addSnapshot", <<"keys", "add">>, fail, TRUE)
              /\ UNCHANGED <<log, nextId, snapshotCursor, snapshotLength>>
         [] fail = "bulkDelete" ->
              /\ log' = patched
              /\ nextId' = nextId + 1
              /\ last' = Call("addSnapshot",
                              <<"keys", "add">> \o ioPatch \o <<"bulkDelete">>, fail, TRUE)
              /\ UNCHANGED <<snapshotCursor, snapshotLength>>
         [] OTHER ->
              \* the update is not awaited: its rejection reaches nobody
              /\ log' = bulkDelete(patched, needDeleteKeys(snapshotCursor, allKeys))
              /\ nextId' = nextId + 1
              /\ snapshotCursor' = newSnapshotCursor(length)
              /\ snapshotLength' = length
              /\ last' = Call("addSnapshot",
                              <<"keys", "add">> \o ioPatch \o <<"bulkDelete">>, fail, FALSE)
    /\ trip' = NoTrip
    /\ UNCHANGED <<slides, slideIndex, activeElementIdList, edits, undos, moves, calls>>

\* snapshots[k] of the ordered read; FALSE stands for undefined
hasSnapshot(l, k) == k >= 0 /\ k < Len(l)

snapshotAt(l, k) == l[k + 1]

\* moves the cursor and the slide index but leaves the displayed slides
restore_noSetSlides(op, target, fail) ==
    IF fail = "toArray" \/ ~hasSnapshot(log, target)
    THEN /\ last' = Call(op, <<"toArray">>, fail, TRUE)
         /\ UNCHANGED <<slides, slideIndex, snapshotCursor, activeElementIdList>>
    ELSE /\ slides' = slides
         /\ slideIndex' = restoredIndex(snapshotAt(log, target))
         /\ snapshotCursor' = target
         /\ activeElementIdList' = <<>>
         /\ last' = Call(op, <<"toArray">>, fail, FALSE)

\* the statements unDo and reDo share once the target position is known
restore(op, target, fail) ==
    IF fail = "toArray" \/ ~hasSnapshot(log, target)
    THEN \* the read is rejected, or snapshots[target] is undefined and
         \* destructuring it throws
         /\ last' = Call(op, <<"toArray">>, fail, TRUE)
         /\ UNCHANGED <<slides, slideIndex, snapshotCursor, activeElementIdList>>
    ELSE /\ slides' = snapshotAt(log, target).slides
         /\ slideIndex' = restoredIndex(snapshotAt(log, target))
         /\ snapshotCursor' = target
         /\ activeElementIdList' = <<>>
         /\ last' = Call(op, <<"toArray">>, fail, FALSE)

\* lets an undo through at the first record
undoReturnsEarly_strict(cursor) == cursor < 0

\* if (this.snapshotCursor <= 0) return
undoReturnsEarly(cursor) == cursor <= 0

\* steps back two records when it can
undoTarget_skips(cursor) == IF cursor >= 2 THEN cursor - 2 ELSE cursor - 1

\* const snapshotCursor = this.snapshotCursor - 1
undoTarget(cursor) == cursor - 1

\* if (this.snapshotCursor >= this.snapshotLength - 1) return
redoReturnsEarly(cursor, length) == cursor >= length - 1

\* reads the record the cursor is already on
redoTarget_stays(cursor) == cursor

\* const snapshotCursor = this.snapshotCursor + 1
redoTarget(cursor) == cursor + 1

\* unDo()
unDo(fail) ==
    /\ IF undoReturnsEarly(snapshotCursor)
       THEN /\ fail = "none"
            /\ last' = Call("unDo", <<>>, "none", FALSE)
            /\ trip' = NoTrip
            /\ UNCHANGED <<slides, slideIndex, snapshotCursor, activeElementIdList, undos>>
       ELSE /\ undos < MaxUndo
            /\ undos' = undos + 1
            /\ restore("unDo", undoTarget(snapshotCursor), fail)
            /\ trip' = IF fail = "none" /\ last.op = "addSnapshot" /\ ~last.error
                       THEN [stage |-> "undone", log |-> log, cursor |-> snapshotCursor,
                             length |-> snapshotLength, slides |-> slides]
                       ELSE NoTrip
    /\ UNCHANGED <<log, nextId, snapshotLength, edits, moves, calls>>

\* reDo()
reDo(fail) ==
    /\ IF redoReturnsEarly(snapshotCursor, snapshotLength)
       THEN /\ fail = "none"
            /\ last' = Call("reDo", <<>>, "none", FALSE)
            /\ trip' = NoTrip
            /\ UNCHANGED <<slides, slideIndex, snapshotCursor, activeElementIdList>>
       ELSE /\ restore("reDo", redoTarget(snapshotCursor), fail)
            /\ trip' = IF fail = "none" /\ trip.stage = "undone"
                       THEN [trip EXCEPT !.stage = "redone"]
                       ELSE NoTrip
    /\ UNCHANGED <<log, nextId, snapshotLength, edits, undos, moves, calls>>

\* the host changes the document: a new deck, a slide index inside it, and
\* the edited element selected
HostEdit ==
    /\ edits < MaxEdits
    /\ \E sl \in Decks : \E ix \in 0..(Len(sl) - 1) :
          /\ <<sl, ix>> # <<slides, slideIndex>>
          /\ slides' = sl
          /\ slideIndex' = ix
    /\ activeElementIdList' = <<1>>
    /\ edits' = edits + 1
    /\ last' = Call("edit", <<>>, "none", FALSE)
    /\ trip' = NoTrip
    /\ UNCHANGED <<log, nextId, snapshotCursor, snapshotLength, undos, failures, moves,
                   calls>>

\* serialized calls, every log operation succeeds
InitSnapshotDatabase ==
    /\ nextId <= MaxId
    /\ initSnapshotDatabase("none")
    /\ UNCHANGED failures

AddSnapshot ==
    /\ nextId <= MaxId
    /\ addSnapshot("none")
    /\ UNCHANGED failures

UnDo == unDo("none") /\ UNCHANGED failures

ReDo == reDo("none") /\ UNCHANGED failures

Next ==
    \/ InitSnapshotDatabase
    \/ AddSnapshot
    \/ UnDo
    \/ ReDo
    \/ HostEdit

Spec == Init /\ [][Next]_vars

\* ------------------------------------------------------------- properties
\* the keys of a log as a set
Ids(l) == { l[i].id : i \in 1..Len(l) }

\* the last call was op and its promise was fulfilled
Completed(op) == last.op = op /\ ~last.error

\* the last call completed and went past its early return
Effective(op) == Completed(op) /\ last.io # <<>>

\* the snapshot a record call captures from the document it started from
Captured(r) == r.index = last.slideIndex /\ r.slides = last.slides /\ r.id \notin Ids(last.log)

Min(a, b) == IF a <= b THEN a ELSE b

\* C1: under serialized calls without log failures, snapshotLength is the
\* number of records in the log; before the first record is appended the
\* state is cursor = -1, length = 0, and afterwards 0 <= cursor <= length - 1.
C1_LengthMatchesLog ==
    /\ snapshotLength = Len(log)
    /\ nextId = 1 => snapshotCursor = -1 /\ snapshotLength = 0
    /\ nextId > 1 => 0 <= snapshotCursor /\ snapshotCursor <= snapshotLength - 1

\* a history that has been recorded into, undone, and redone
C1_Witness ==
    /\ Effective("reDo")
    /\ snapshotLength >= 3
    /\ snapshotCursor = snapshotLength - 1

\* C2: snapshotLength and the number of records in the log never exceed 20,
\* however many record calls came before.
C2_LengthAtMostLimit ==
    /\ snapshotLength <= 20
    /\ Len(log) <= 20

\* a record call made on a full history has completed
C2_Witness ==
    /\ Completed("addSnapshot")
    /\ Len(last.log) = 20
    /\ snapshotLength = 20

\* C3: a record call made with cursor c < length - 1 leaves the records that
\* were at positions 0..c (same ids, same content, same order; the focusIndex
\* of positions 0..c-1 untouched) followed by the captured snapshot; no key
\* from a position > c survives; cursor = c + 1 and length = c + 2.
C3_BranchTruncation ==
    (Completed("addSnapshot") /\ last.cursor < last.length - 1) =>
        LET c == last.cursor IN
        /\ Len(log) = c + 2
        /\ \A k \in 0..c :
              /\ snapshotAt(log, k).id = snapshotAt(last.log, k).id
              /\ snapshotAt(log, k).slides = snapshotAt(last.log, k).slides
              /\ k < c => snapshotAt(log, k) = snapshotAt(last.log, k)
        /\ Captured(snapshotAt(log, c + 1))
        /\ \A k \in (c + 1)..(last.length - 1) : snapshotAt(last.log, k).id \notin Ids(log)
        /\ snapshotCursor = c + 1
        /\ snapshotLength = c + 2

\* [A,B,C,D] with the cursor at B has become [A,B,E]
C3_Witness ==
    /\ Completed("addSnapshot")
    /\ Len(last.log) = 4
    /\ last.cursor = 1
    /\ Len(log) = 3

\* C4 as stated: a record call on a history of length 20 leaves length 20,
\* removes the oldest record, and ends with the captured snapshot.
C4_EvictionAtAnyCursor ==
    (Completed("addSnapshot") /\ last.length = 20) =>
        /\ snapshotLength = 20
        /\ Len(log) = 20
        /\ snapshotAt(last.log, 0).id \notin Ids(log)
        /\ Captured(snapshotAt(log, 19))

\* C4 amended: a record call on a history of length 20 whose cursor is at the
\* last record (19) leaves length 20, removes the oldest record, and ends
\* with the captured snapshot.
C4_EvictionAtLastCursor ==
    (Completed("addSnapshot") /\ last.length = 20 /\ last.cursor = 19) =>
        /\ snapshotLength = 20
        /\ Len(log) = 20
        /\ snapshotAt(last.log, 0).id \notin Ids(log)
        /\ Captured(snapshotAt(log, 19))

\* the oldest record of a full history has been evicted
C4_Witness ==
    /\ Completed("addSnapshot")
    /\ last.length = 20
    /\ last.cursor = 19
    /\ log # <<>>
    /\ snapshotAt(log, 0).id = snapshotAt(last.log, 1).id

\* C5: after a record call that leaves length >= 2, the record at position
\* length - 2 carries the current slide index as its focusIndex, and every
\* other surviving record that existed before the call keeps its focusIndex.
C5_FocusPatch ==
    (Completed("addSnapshot") /\ snapshotLength >= 2) =>
        /\ snapshotAt(log, snapshotLength - 2).index = last.slideIndex
        /\ \A k \in 0..(Len(log) - 1) : \A j \in 0..(Len(last.log) - 1) :
              (snapshotAt(log, k).id = snapshotAt(last.log, j).id /\ k # snapshotLength - 2)
                  => snapshotAt(log, k).index = snapshotAt(last.log, j).index

\* C6: an effective undo or redo sets the document content to the content of
\* the record it moves to, and the slide index to the smaller of that
\* record's focusIndex and its number of slides minus one.
C6_RestoreClamp ==
    /\ Effective("unDo") =>
          /\ slides = snapshotAt(last.log, last.cursor - 1).slides
          /\ slideIndex = Min(snapshotAt(last.log, last.cursor - 1).index, Len(slides) - 1)
    /\ Effective("reDo") =>
          /\ slides = snapshotAt(last.log, last.cursor + 1).slides
          /\ slideIndex = Min(snapshotAt(last.log, last.cursor + 1).index, Len(slides) - 1)

\* an undo into a record whose focusIndex is past its last slide
C6_Witness ==
    /\ Effective("unDo")
    /\ snapshotAt(log, snapshotCursor).index > Len(snapshotAt(log, snapshotCursor).slides) - 1
    /\ slideIndex = Len(slides) - 1

\* C7: an undo right after a record call, followed by a redo, gives back the
\* document content and the cursor from before the undo; the log and length
\* are the same throughout, and each of the two steps leaves no selection.
C7_UndoRedoRoundTrip ==
    /\ trip.stage = "undone" =>
          /\ log = trip.log
          /\ snapshotLength = trip.length
          /\ activeElementIdList = <<>>
    /\ trip.stage = "redone" =>
          /\ slides = trip.slides
          /\ snapshotCursor = trip.cursor
          /\ log = trip.log
          /\ snapshotLength = trip.length
          /\ activeElementIdList = <<>>

\* a round trip through a record with other content has completed
C7_Witness ==
    /\ trip.stage = "redone"
    /\ last.slides # slides

\* C8: undo at cursor <= 0 and redo at cursor >= length - 1 issue no log
\* operation and change none of cursor, length, log, document content, slide
\* index, selection.
C8_NoOpBoundaries ==
    (\/ last.op = "unDo" /\ last.cursor <= 0
     \/ last.op = "reDo" /\ last.cursor >= last.length - 1) =>
        /\ last.io = <<>>
        /\ ~last.error
        /\ snapshotCursor = last.cursor
        /\ snapshotLength = last.length
        /\ log = last.log
        /\ slides = last.slides
        /\ slideIndex = last.slideIndex
        /\ activeElementIdList = last.active

\* an undo at the first record of a longer history, with a selection held
C8_Witness ==
    /\ last.op = "unDo"
    /\ last.cursor = 0
    /\ last.length >= 2
    /\ activeElementIdList # <<>>

\* C9: when a log operation of a call fails, the caller's promise is rejected
\* and snapshotCursor and snapshotLength keep the values they had before the
\* call.
C9_FailurePropagates ==
    last.failed # "none" =>
        /\ last.error
        /\ snapshotCursor = last.cursor
        /\ snapshotLength = last.length

\* C10: right after a completed record call the cursor is length - 1 and the
\* record there is the captured snapshot; canRedo is false, and canUndo is
\* true when length >= 2.
C10_CursorAtNewest ==
    Completed("addSnapshot") =>
        /\ snapshotCursor = snapshotLength - 1
        /\ snapshotCursor >= 0
        /\ Captured(snapshotAt(log, snapshotCursor))
        /\ ~canRedo
        /\ snapshotLength >= 2 => canUndo

\* a record call has invalidated a pending redo
C10_Witness ==
    /\ Completed("addSnapshot")
    /\ last.cursor < last.length - 1
    /\ canUndo
    /\ ~canRedo

C12_CursorOnDisplayed ==
    (\/ Completed("initSnapshotDatabase")
     \/ Completed("addSnapshot")
     \/ Effective("unDo")
     \/ Effective("reDo")) =>
        /\ hasSnapshot(log, snapshotCursor)
        /\ snapshotAt(log, snapshotCursor).slides = slides

\* an undo, after an eviction, into a record with other content than the newest
C12_Witness ==
    /\ Effective("unDo")
    /\ nextId > 21
    /\ snapshotAt(log, snapshotCursor).slides # snapshotAt(log, snapshotLength - 1).slides

\* ------------------------------------------- the host moves between slides
\* the host shows another slide of the same deck; no snapshot is recorded
HostNavigate ==
    /\ moves < MaxMoves
    /\ \E ix \in 0..(Len(slides) - 1) :
          /\ ix # slideIndex
          /\ slideIndex' = ix
    /\ moves' = moves + 1
    /\ last' = Call("navigate", <<>>, "none", FALSE)
    /\ trip' = NoTrip
    /\ UNCHANGED <<log, nextId, snapshotCursor, snapshotLength, slides,
                   activeElementIdList, edits, undos, failures, calls>>

NextNav ==
    \/ InitSnapshotDatabase
    \/ AddSnapshot
    \/ UnDo
    \/ ReDo
    \/ HostEdit
    \/ HostNavigate

SpecNav == Init /\ [][NextNav]_vars

\* C13: an effective undo right after a record call made at slide index s
\* sets the slide index to the smaller of s and the number of slides of the
\* restored content minus one.
C13_FocusContinuity ==
    trip.stage = "undone" => slideIndex = Min(last.slideIndex, Len(slides) - 1)

\* ---------------------------------------------- calls whose log I/O may fail
\* the runs with failures are explored over short histories
ShortHistory == nextId <= MaxFailId

\* one more log operation is allowed to fail
MayFail == ShortHistory /\ failures < MaxFailures

InitSnapshotDatabaseShort == ShortHistory /\ InitSnapshotDatabase

AddSnapshotShort == ShortHistory /\ AddSnapshot

InitSnapshotDatabaseFails ==
    /\ MayFail
    /\ initSnapshotDatabase("add")
    /\ failures' = failures + 1

AddSnapshotFails ==
    /\ MayFail
    /\ \E fail \in {"keys", "add", "update", "bulkDelete"} : addSnapshot(fail)
    /\ failures' = failures + 1

UnDoFails ==
    /\ MayFail
    /\ unDo("toArray")
    /\ failures' = failures + 1

ReDoFails ==
    /\ MayFail
    /\ reDo("toArray")
    /\ failures' = failures + 1

NextFail ==
    \/ InitSnapshotDatabaseShort
    \/ AddSnapshotShort
    \/ UnDo
    \/ ReDo
    \/ HostEdit
    \/ InitSnapshotDatabaseFails
    \/ AddSnapshotFails
    \/ UnDoFails
    \/ ReDoFails

SpecFail == Init /\ [][NextFail]_vars

\* C14: a record call that has set cursor and length had every log mutation
\* it issued complete successfully, and the focus patch it issued is in the
\* log when it returns.
C14_SetAfterLogWrites ==
    Completed("addSnapshot") =>
        /\ last.failed = "none"
        /\ snapshotLength >= 2 =>
              \A k \in 0..(Len(log) - 1) :
                  snapshotAt(log, k).id = patchKey(last.cursor, allKeysOf(last.log))
                      => snapshotAt(log, k).index = last.slideIndex

\* C16: when the append of a record call succeeds and its batched delete
\* fails, the log holds every earlier record and the new one, cursor and
\* length keep their values, and length differs from the number of records;
\* a later record call made from such a state keeps the records up to the
\* stale cursor (all of them when the cursor is -1) and its own snapshot.
C16_FailedDeleteDesync ==
    /\ (last.op = "addSnapshot" /\ last.failed = "bulkDelete") =>
          /\ Len(log) = Len(last.log) + 1
          /\ \A j \in 0..(Len(last.log) - 1) : snapshotAt(log, j).id = snapshotAt(last.log, j).id
          /\ Captured(snapshotAt(log, Len(log) - 1))
          /\ snapshotCursor = last.cursor
          /\ snapshotLength = last.length
          /\ snapshotLength # Len(log)
    /\ (Completed("addSnapshot") /\ last.length # Len(last.log)) =>
          LET kept == IF last.cursor >= 0 THEN last.cursor + 1 ELSE Len(last.log) IN
          /\ Len(log) = kept + 1
          /\ \A j \in 0..(kept - 1) : snapshotAt(log, j).id = snapshotAt(last.log, j).id
          /\ Captured(snapshotAt(log, kept))

\* a record call made after a failed delete left a redo branch and the failed
\* call's record in the log
C16_Witness ==
    /\ Completed("addSnapshot")
    /\ last.length = 2
    /\ Len(last.log) = 3
    /\ last.cursor = 0
    /\ Len(log) = 2

\* ------------------------------------------- overlapping addSnapshot calls
\* An addSnapshot call runs from one await to the next; between two awaits of
\* one call the steps of another call may run.  Everything else runs only
\* while no call is in flight.
Quiet == \A p \in Callers : calls[p].pc \in {"idle", "done"}

\* room for one more appended record
ConcHorizon ==
    nextId + Cardinality({ p \in Callers : calls[p].pc = "listed" }) <= MaxConcId

\* lines 68-85: the keys arrive; the cursor is read and the snapshot captured
CallKeys(p) ==
    /\ calls[p].pc \in {"idle", "done"}
    /\ ConcHorizon
    /\ calls' = [calls EXCEPT ![p] =
                    [pc |-> "listed", seen |-> nextId, cursor |-> snapshotCursor,
                     allKeys |-> allKeysOf(log), index |-> slideIndex,
                     slides |-> slides, id |-> 0]]
    /\ UNCHANGED <<log, nextId, snapshotCursor, snapshotLength, slides, slideIndex,
                   activeElementIdList, last, trip, edits, undos, failures, moves>>

\* line 86: the append
CallAdd(p) ==
    /\ calls[p].pc = "listed"
    /\ log' = add(log, nextId, calls[p].index, calls[p].slides)
    /\ nextId' = nextId + 1
    /\ calls' = [calls EXCEPT ![p].pc = "added", ![p].id = nextId]
    /\ UNCHANGED <<snapshotCursor, snapshotLength, slides, slideIndex,
                   activeElementIdList, last, trip, edits, undos, failures, moves>>

\* lines 89-105: the focus patch and the batched delete, computed from the
\* keys and the cursor of lines 68-79
CallWrite(p) ==
    LET c == calls[p].cursor
        allKeys == calls[p].allKeys
        patched == IF newSnapshotLength(c, allKeys) >= 2
                   THEN update(log, patchKey(c, allKeys), slideIndex)
                   ELSE log
    IN
    /\ calls[p].pc = "added"
    /\ log' = bulkDelete(patched, needDeleteKeys(c, allKeys))
    /\ calls' = [calls EXCEPT ![p].pc = "written"]
    /\ UNCHANGED <<nextId, snapshotCursor, snapshotLength, slides, slideIndex,
                   activeElementIdList, last, trip, edits, undos, failures, moves>>

\* lines 107-108; last keeps the state this final step started from
CallFinish(p) ==
    LET length == newSnapshotLength(calls[p].cursor, calls[p].allKeys) IN
    /\ calls[p].pc = "written"
    /\ snapshotCursor' = newSnapshotCursor(length)
    /\ snapshotLength' = length
    /\ calls' = [calls EXCEPT ![p].pc = "done"]
    /\ last' = Call("addSnapshot", <<"keys", "add", "bulkDelete">>, "none", FALSE)
    /\ trip' = NoTrip
    /\ UNCHANGED <<log, nextId, slides, slideIndex, activeElementIdList,
                   edits, undos, failures, moves>>

Keys == \E p \in Callers : CallKeys(p)

Added == \E p \in Callers : CallAdd(p)

Written == \E p \in Callers : CallWrite(p)

Finished == \E p \in Callers : CallFinish(p)

InitSnapshotDatabaseQuiet == Quiet /\ nextId <= MaxConcId /\ InitSnapshotDatabase

UnDoQuiet == Quiet /\ UnDo

ReDoQuiet == Quiet /\ ReDo

HostEditQuiet == Quiet /\ HostEdit

NextConc ==
    \/ InitSnapshotDatabaseQuiet
    \/ Keys
    \/ Added
    \/ Written
    \/ Finished
    \/ UnDoQuiet
    \/ ReDoQuiet
    \/ HostEditQuiet

SpecConc == Init /\ [][NextConc]_vars

\* the two calls listed the same keys under the same cursor, no record was
\* appended between the two listings, and both calls have returned
Overlapped(p, q) ==
    /\ calls[p].pc = "done" /\ calls[q].pc = "done"
    /\ calls[p].seen = calls[q].seen
    /\ calls[p].allKeys = calls[q].allKeys
    /\ calls[p].cursor = calls[q].cursor

\* C15: when two record calls both list the keys before either appends, both
\* records are appended and stay in the log, snapshotLength ends as the one
\* length both calls compute, and after both have returned it is smaller
\* than the number of records in the log.
C15_OverlapDesync ==
    \A p \in Callers : \A q \in Callers \ {p} :
        Overlapped(p, q) =>
            /\ calls[p].id \in Ids(log) /\ calls[q].id \in Ids(log)
            /\ calls[p].id # calls[q].id
            /\ snapshotLength = newSnapshotLength(calls[p].cursor, calls[p].allKeys)
            /\ snapshotLength < Len(log)

\* two overlapping calls on a history with a redo branch have returned
C15_Witness ==
    /\ Overlapped(1, 2)
    /\ calls[1].cursor < Len(calls[1].allKeys) - 1
    /\ snapshotLength = Len(log) - 1

\* ------------------------------------- record on a log of any size
\* The log holds n records the history did not build itself, more than the
\* limit allows among them, and the cursor is anywhere on it.
InitAnyLog ==
    /\ \E n \in 0..MaxKeys : \E c \in -1..(n - 1) :
          /\ log = [i \in 1..n |-> [id |-> i, index |-> 0, slides |-> <<1>>]]
          /\ nextId = n + 1
          /\ snapshotCursor = c
          /\ snapshotLength = n
    /\ slides = <<1>>
    /\ slideIndex = 0
    /\ activeElementIdList = <<>>
    /\ last = [op |-> "none", log |-> <<>>, cursor |-> -1, length |-> 0,
               slides |-> <<1>>, slideIndex |-> 0, active |-> <<>>,
               io |-> <<>>, failed |-> "none", error |-> FALSE]
    /\ trip = NoTrip
    /\ edits = 0
    /\ undos = 0
    /\ failures = 0
    /\ moves = 0
    /\ calls = [p \in Callers |-> IdleCall]

AddSnapshotAnyLog ==
    /\ nextId <= MaxKeys + 1
    /\ addSnapshot("none")
    /\ UNCHANGED failures

NextAnyLog == AddSnapshotAnyLog

SpecAnyLog == InitAnyLog /\ [][NextAnyLog]_vars

NoDuplicate(keys) ==
    \A i \in 1..Len(keys) : \A j \in 1..Len(keys) : i # j => keys[i] # keys[j]

\* C18: under serialized calls from the empty log no record call both
\* truncates a redo branch and evicts the oldest record; and whatever keys
\* the listing returns after those of the log, the keys marked by truncation
\* do not include the oldest key and the deletion list has no key twice.
C18_TruncationOrEviction ==
    /\ (Completed("addSnapshot") /\ last.log # <<>>) =>
          ~ /\ snapshotAt(last.log, 0).id \notin Ids(log)
            /\ \E j \in 1..(Len(last.log) - 1) : snapshotAt(last.log, j).id \notin Ids(log)
    /\ \A extra \in 0..MaxExtraKeys :
          LET allKeys == allKeysOf(log) \o [i \in 1..extra |-> nextId + i - 1] IN
          /\ allKeys # <<>> =>
                allKeys[1] \notin SeqRange(truncatedKeys(snapshotCursor, allKeys))
          /\ NoDuplicate(needDeleteKeys(snapshotCursor, allKeys))

\* a record call on a full history has truncated a redo branch and evicted nothing
C18_Witness ==
    /\ Completed("addSnapshot")
    /\ last.length = 20
    /\ last.cursor < 19
    /\ snapshotAt(log, 0).id = snapshotAt(last.log, 0).id

\* C19: a record call on the uninitialized history (cursor -1, length 0,
\* empty log) appends one record, the captured snapshot, issues no focus
\* patch and deletes nothing, and ends with cursor 0 and length 1, as init
\* does.
C19_RecordOnEmpty ==
    (Completed("addSnapshot") /\ last.cursor = -1 /\ last.length = 0 /\ last.log = <<>>) =>
        /\ Len(log) = 1
        /\ Captured(snapshotAt(log, 0))
        /\ last.io = <<"keys", "add", "bulkDelete">>
        /\ snapshotCursor = 0
        /\ snapshotLength = 1

\* the first record of a history was appended by a record call
C19_Witness ==
    /\ Completed("addSnapshot")
    /\ last.log = <<>>
    /\ snapshotCursor = 0
    /\ nextId = 2

TypeOK ==
    /\ snapshotCursor \in -1..snapshotLengthLimit
    /\ snapshotLength \in 0..snapshotLengthLimit
    /\ slideIndex \in 0..(Len(slides) - 1)

====
